---- MODULE Spec2Model ----
\* Model of the spend bot of src/main.py: the message handler `ingest`
\* (filtering, cluster tagging, amount parsing, the transactional block on the
\* `spends` table) and the report `summarize_day` with its two SQL queries.
\* Texts are sequences of one-character strings.  A Decimal is a record
\* [num, frac] standing for num / 10^frac.
EXTENDS Integers, Sequences, FiniteSets, TLC

VARIABLES spends,   \* the rows of table `spends`, in insertion (id) order
          today,    \* the local calendar day dt.datetime.now() falls on
          call,     \* the handler or function that ran last, with its result
          seen,     \* history: the keys of the storable messages handed to ingest
          again,    \* history: the keys of those handed to ingest more than once
          outbox,   \* the last text handed to bot.send_message, or NoMessage
          ledger    \* history: day, cluster and amount of the storable messages
                    \* at their first delivery (kept in SpecE2E only)

vars == <<spends, today, call, seen, again, outbox, ledger>>

\* ---------------------------------------------------------------- bounds
MaxMsgId == 2
MaxDay == 2
MaxNormLen == 3
MaxRows == 2

\* ---------------------------------------------------------------- env
SOURCE_CHAT_ID == 1001
OtherChat == SOURCE_CHAT_ID + 1
POST_CHAT_ID == SOURCE_CHAT_ID

\* ---------------------------------------------------------------- characters
NNBSP == "u202f"
Digit == {"0", "1", "2", "3", "4", "5", "6", "7", "8", "9"}
Space == {" ", "\t", NNBSP}
GroupChar == Digit \cup Space \cup {".", ","}

DigitVal == "0" :> 0 @@ "1" :> 1 @@ "2" :> 2 @@ "3" :> 3 @@ "4" :> 4 @@
            "5" :> 5 @@ "6" :> 6 @@ "7" :> 7 @@ "8" :> 8 @@ "9" :> 9

UpperOf == "a" :> "A" @@ "b" :> "B" @@ "c" :> "C" @@ "d" :> "D" @@ "e" :> "E" @@
           "f" :> "F" @@ "g" :> "G" @@ "h" :> "H" @@ "i" :> "I" @@ "j" :> "J" @@
           "k" :> "K" @@ "l" :> "L" @@ "m" :> "M" @@ "n" :> "N" @@ "o" :> "O" @@
           "p" :> "P" @@ "q" :> "Q" @@ "r" :> "R" @@ "s" :> "S" @@ "t" :> "T" @@
           "u" :> "U" @@ "v" :> "V" @@ "w" :> "W" @@ "x" :> "X" @@ "y" :> "Y" @@
           "z" :> "Z"

\* str.upper(), character by character
upper(s) == [i \in 1..Len(s) |-> IF s[i] \in DOMAIN UpperOf THEN UpperOf[s[i]] ELSE s[i]]

\* str.strip(): leading and trailing whitespace removed
RECURSIVE lstrip(_)
lstrip(s) == IF s # <<>> /\ Head(s) \in Space THEN lstrip(Tail(s)) ELSE s

RECURSIVE rstrip(_)
rstrip(s) == IF s # <<>> /\ s[Len(s)] \in Space THEN rstrip(SubSeq(s, 1, Len(s) - 1)) ELSE s

strip(s) == rstrip(lstrip(s))

\* str.count(c)
count(s, c) == Cardinality({i \in 1..Len(s) : s[i] = c})

\* `sub in s` for strings
Contains(s, sub) ==
    \E i \in 1..(Len(s) - Len(sub) + 1) : SubSeq(s, i, i + Len(sub) - 1) = sub

\* ---------------------------------------------------------------- Decimal
RECURSIVE Pow10(_)
Pow10(n) == IF n = 0 THEN 1 ELSE 10 * Pow10(n - 1)

RECURSIVE DigitsToNat(_)
DigitsToNat(s) ==
    IF s = <<>> THEN 0
    ELSE 10 * DigitsToNat(SubSeq(s, 1, Len(s) - 1)) + DigitVal[s[Len(s)]]

InvalidOperation == [ok |-> FALSE, num |-> 0, frac |-> 0]

\* Decimal(s) for the strings _norm_amount can pass: surrounding whitespace is
\* ignored; what is left must be digits with at most one "." and at least one
\* digit, anything else raises decimal.InvalidOperation
Decimal(s) ==
    LET t == strip(s)
        digits == SelectSeq(t, LAMBDA c : c \in Digit)
        dot == CHOOSE i \in 1..(Len(t) + 1) : i = Len(t) + 1 \/ t[i] = "."
    IN  IF /\ \A i \in 1..Len(t) : t[i] \in Digit \cup {"."}
           /\ count(t, ".") <= 1
           /\ digits # <<>>
        THEN [ok |-> TRUE, num |-> DigitsToNat(digits),
              frac |-> IF dot > Len(t) THEN 0 ELSE Len(t) - dot]
        ELSE InvalidOperation

\* numeric order and equality of two Decimals
DecLeq(a, b) == a.num * Pow10(b.frac) <= b.num * Pow10(a.frac)
DecEq(a, b) == a.num * Pow10(b.frac) = b.num * Pow10(a.frac)

\* the number with the trailing zeros of its fraction dropped (one
\* representation per value)
RECURSIVE Canon(_)
Canon(d) ==
    IF d.frac > 0 /\ d.num % 10 = 0
    THEN Canon([d EXCEPT !.num = d.num \div 10, !.frac = d.frac - 1])
    ELSE d

DecAdd(a, b) ==
    LET f == IF a.frac >= b.frac THEN a.frac ELSE b.frac
    IN  Canon([ok |-> TRUE, frac |-> f,
               num |-> a.num * Pow10(f - a.frac) + b.num * Pow10(f - b.frac)])

Zero == [ok |-> TRUE, num |-> 0, frac |-> 0]

\* float(amount): the value stored in the REAL column
float(d) == Canon(d)

\* ---------------------------------------------------------------- parsing
CLUSTERS == <<<<"T", "E", "X", "A", "S">>, <<"S", "K", "Y">>, <<"A", "L", "X">>>>
None == <<"None">>

\* _norm_amount
_norm_amount(txt) ==
    LET s0 == SelectSeq(txt, LAMBDA c : c \notin {NNBSP, " "})
        s1 == IF count(s0, ",") = 1 /\ count(s0, ".") = 0
              THEN [i \in 1..Len(s0) |-> IF s0[i] = "," THEN "." ELSE s0[i]]
              ELSE s0
        s2 == IF count(s1, ",") > 1 /\ count(s1, ".") = 0
              THEN SelectSeq(s1, LAMBDA c : c # ",")
              ELSE s1
    IN  Decimal(s2)

\* extract_cluster falling back to the first label instead of None
extract_cluster_default(text) ==
    LET up == upper(text)
        hits == {k \in 1..Len(CLUSTERS) : Contains(up, CLUSTERS[k])}
    IN  IF hits = {} THEN CLUSTERS[1]
        ELSE CLUSTERS[CHOOSE k \in hits : \A j \in hits : k <= j]

\* extract_cluster returning the label that occurs first in the text
extract_cluster_by_position(text) ==
    LET up == upper(text)
        hits == {k \in 1..Len(CLUSTERS) : Contains(up, CLUSTERS[k])}
        pos(k) == CHOOSE i \in 1..Len(up) :
                      /\ SubSeq(up, i, i + Len(CLUSTERS[k]) - 1) = CLUSTERS[k]
                      /\ \A j \in 1..(i - 1) : SubSeq(up, j, j + Len(CLUSTERS[k]) - 1) # CLUSTERS[k]
    IN  IF hits = {} THEN None
        ELSE CLUSTERS[CHOOSE k \in hits : \A j \in hits : pos(k) <= pos(j)]

\* extract_cluster
extract_cluster(text) ==
    LET up == upper(text)
        hits == {k \in 1..Len(CLUSTERS) : Contains(up, CLUSTERS[k])}
    IN  IF hits = {} THEN None
        ELSE CLUSTERS[CHOOSE k \in hits : \A j \in hits : k <= j]

\* (?:USD|\$), case-insensitive, at position i: the length it matches, 0 if none
MarkerLen(text, i) ==
    IF i <= Len(text) /\ text[i] = "$" THEN 1
    ELSE IF i + 2 <= Len(text) /\ upper(SubSeq(text, i, i + 2)) = <<"U", "S", "D">> THEN 3
    ELSE 0

\* the end (exclusive) of the longest run of [\d\s.,] starting at i
RECURSIVE RunEnd(_, _)
RunEnd(text, i) ==
    IF i <= Len(text) /\ text[i] \in GroupChar THEN RunEnd(text, i + 1) ELSE i

\* one attempt of AMOUNT_RE at position i: whether it matches, group 1, and
\* where the match ends
MatchAt(text, i) ==
    LET pl == MarkerLen(text, i)
        a == i + pl
        e == RunEnd(text, a)
        w == CHOOSE j \in a..e : (j = e \/ text[j] \notin Space) /\
                                 \A k \in a..(j - 1) : text[k] \in Space
        g == IF pl = 0 THEN a ELSE IF w = e THEN e - 1 ELSE w
    IN  IF e = a
        THEN [found |-> FALSE, group |-> <<>>, end |-> i]
        ELSE [found |-> TRUE, group |-> SubSeq(text, g, e - 1),
              end |-> e + MarkerLen(text, e)]

\* AMOUNT_RE.findall(text): group 1 of the successive non-overlapping matches
RECURSIVE findall_from(_, _)
findall_from(text, i) ==
    IF i > Len(text) THEN <<>>
    ELSE LET m == MatchAt(text, i)
         IN  IF m.found THEN <<m.group>> \o findall_from(text, m.end)
             ELSE findall_from(text, i + 1)

findall(text) == findall_from(text, 1)

\* the value of the first match instead of the greatest
max_norm_first(matches) ==
    LET vals == [i \in 1..Len(matches) |-> _norm_amount(matches[i])]
    IN  IF \E i \in 1..Len(vals) : ~vals[i].ok THEN InvalidOperation
        ELSE vals[1]

\* the greatest value among the matches that normalize, the others skipped
max_norm_skip_invalid(matches) ==
    LET vals == SelectSeq([i \in 1..Len(matches) |-> _norm_amount(matches[i])],
                          LAMBDA v : v.ok)
    IN  IF vals = <<>> THEN InvalidOperation
        ELSE vals[CHOOSE i \in 1..Len(vals) :
                    /\ \A j \in 1..Len(vals) : DecLeq(vals[j], vals[i])
                    /\ \A j \in 1..(i - 1) : ~DecLeq(vals[i], vals[j])]

\* max(_norm_amount(m) for m in matches): raises when any match fails to
\* normalize, otherwise the first greatest value
max_norm(matches) ==
    LET vals == [i \in 1..Len(matches) |-> _norm_amount(matches[i])]
    IN  IF \E i \in 1..Len(vals) : ~vals[i].ok THEN InvalidOperation
        ELSE vals[CHOOSE i \in 1..Len(vals) :
                    /\ \A j \in 1..Len(vals) : DecLeq(vals[j], vals[i])
                    /\ \A j \in 1..(i - 1) : ~DecLeq(vals[i], vals[j])]

\* ---------------------------------------------------------------- inputs
\* the message texts the updates are drawn from
T_empty == <<>>
T_blank == <<" ", " ">>
T_today == <<"/", "t", "o", "d", "a", "y">>
T_hi500 == <<"h", "i", " ", "5", "0", "0">>
T_SKY == <<"S", "K", "Y">>
T_SKY500 == <<"S", "K", "Y", " ", "5", "0", "0">>
T_SKY300 == <<" ", "S", "K", "Y", " ", "3", "0", "0">>
T_ALX100 == <<"A", "L", "X", " ", "1", "0", "0">>
T_sky0 == <<"s", "k", "y", " ", "0">>
T_TEXAS == <<"T", "E", "X", "A", "S", " ", "s", "p", "e", "n", "d", " ", "$", "1", ",", "2", "0", "0", ".", "5", "0">>
T_ALXbad == <<"A", "L", "X", "1", ".", "2", ".", "3">>
T_two == <<"S", "K", "Y", "5", " ", "A", "L", "X", " ", "7">>
T_SKY1c5 == <<"S", "K", "Y", "1", ",", "5">>
T_SKYd5 == <<"S", "K", "Y", " ", "$", " ", "5">>
T_ALX3400 == <<"A", "L", "X", " ", "3", " ", "4", "0", "0">>
T_ALXsky == <<"A", "L", "X", " ", "s", "k", "y", " ", "2">>

Texts == {T_empty, T_blank, T_today, T_hi500, T_SKY, T_SKY500, T_SKY300, T_ALX100, T_sky0, T_TEXAS, T_ALXbad, T_two, T_SKY1c5, T_SKYd5, T_ALX3400,
          T_ALXsky}

Chats == {SOURCE_CHAT_ID, OtherChat}
Updates == [chat_id : Chats, message_id : 1..MaxMsgId, text : Texts]
Days == 1..MaxDay

\* ---------------------------------------------------------------- ingest
\* The name `text` inside ingest is the local of line 58, the stripped
\* message text (a non-empty str once line 60 is passed), and not
\* sqlalchemy.text: whether calling it returns a statement
StrCallable == FALSE

Key(r) == <<r.chat_id, r.message_id>>
Keys(tbl) == {Key(tbl[i]) : i \in 1..Len(tbl)}

\* lines 75-78: SELECT 1 FROM spends WHERE chat_id=:c AND message_id=:m
SelectExists(tbl, c, m) == \E i \in 1..Len(tbl) : tbl[i].chat_id = c /\ tbl[i].message_id = m

NewRow(msg, ymd, cluster, amount) ==
    [chat_id |-> msg.chat_id, message_id |-> msg.message_id,
     ymd |-> ymd, cluster |-> cluster, amount |-> float(amount)]

\* the block with a working statement constructor and no existence check
db_block_no_check(tbl, msg, ymd, cluster, amount) ==
    [outcome |-> "Stored", tbl |-> Append(tbl, NewRow(msg, ymd, cluster, amount))]

\* the block with a working statement constructor and the INSERT executed
\* ahead of the existence check
db_block_insert_first(tbl, msg, ymd, cluster, amount) ==
    [outcome |-> IF SelectExists(tbl, msg.chat_id, msg.message_id)
                 THEN "Duplicate" ELSE "Stored",
     tbl |-> Append(tbl, NewRow(msg, ymd, cluster, amount))]

\* the block with a working statement constructor and INSERT OR REPLACE in
\* place of the existence check
db_block_replace(tbl, msg, ymd, cluster, amount) ==
    IF SelectExists(tbl, msg.chat_id, msg.message_id)
    THEN [outcome |-> "Stored",
          tbl |-> [i \in 1..Len(tbl) |->
                      IF Key(tbl[i]) = Key(msg) THEN NewRow(msg, ymd, cluster, amount)
                      ELSE tbl[i]]]
    ELSE [outcome |-> "Stored", tbl |-> Append(tbl, NewRow(msg, ymd, cluster, amount))]

\* lines 74-83: the block under engine.begin().  text("SELECT ...") is
\* evaluated first; when it raises, the transaction is rolled back with
\* nothing executed.
db_block(tbl, msg, ymd, cluster, amount) ==
    IF ~StrCallable THEN [outcome |-> "TypeError", tbl |-> tbl]
    ELSE IF SelectExists(tbl, msg.chat_id, msg.message_id)
    THEN [outcome |-> "Duplicate", tbl |-> tbl]
    ELSE [outcome |-> "Stored", tbl |-> Append(tbl, NewRow(msg, ymd, cluster, amount))]

\* the amount filter letting zero through
NonPositive_strict(amount) == amount.num < 0

\* line 70: the amount filter
NonPositive(amount) == amount.num <= 0

\* the origin filter that lets every chat through
WrongOrigin_never(update) == FALSE

\* line 56: the origin filter
WrongOrigin(update) == update.chat_id # SOURCE_CHAT_ID

\* the locals `cluster` and `amount` before they are bound
Unbound == [ok |-> FALSE, num |-> 0, frac |-> 0]

\* the body of ingest: the line it ends on, as an outcome, the table it
\* leaves, and its locals `cluster` and `amount`
ingest_run(tbl, update, now) ==
    LET end(outcome, cluster, amount) ==
            [outcome |-> outcome, tbl |-> tbl, cluster |-> cluster, amount |-> amount]
    IN
    IF WrongOrigin(update) THEN end("NotSource", None, Unbound)
    ELSE LET text == strip(update.text) IN
    IF text = <<>> THEN end("EmptyText", None, Unbound)
    ELSE LET cluster == extract_cluster(text) IN
    IF cluster = None THEN end("FilteredNoCluster", None, Unbound)
    ELSE LET matches == findall(text) IN
    IF matches = <<>> THEN end("FilteredNoAmount", cluster, Unbound)
    ELSE LET amount == max_norm(matches) IN
    IF ~amount.ok THEN end("InvalidOperation", cluster, Unbound)
    ELSE IF NonPositive(amount) THEN end("FilteredNonPositive", cluster, amount)
    ELSE LET r == db_block(tbl, update, now, cluster, amount)
         IN  [outcome |-> r.outcome, tbl |-> r.tbl, cluster |-> cluster, amount |-> amount]

\* a message of the source chat in which ingest finds a cluster and a positive
\* amount (history only)
Storable(update) ==
    /\ update.chat_id = SOURCE_CHAT_ID
    /\ extract_cluster(strip(update.text)) # None
    /\ findall(strip(update.text)) # <<>>
    /\ max_norm(findall(strip(update.text))).ok
    /\ max_norm(findall(strip(update.text))).num > 0

ingest(update) ==
    LET r == ingest_run(spends, update, today) IN
    /\ spends' = r.tbl
    /\ call' = [op |-> "ingest", update |-> update, outcome |-> r.outcome,
                cluster |-> r.cluster, amount |-> r.amount,
                first |-> Key(update) \notin seen, before |-> spends]
    /\ seen' = IF Storable(update) THEN seen \cup {Key(update)} ELSE seen
    /\ again' = IF Storable(update) /\ Key(update) \in seen
                THEN again \cup {Key(update)} ELSE again
    /\ UNCHANGED <<today, outbox>>

\* ---------------------------------------------------------------- report
\* ROUND(x, 2) of SQLite: to two decimals, halves away from zero
ROUND2(x) ==
    IF x.frac <= 2 THEN Canon(x)
    ELSE LET p == Pow10(x.frac - 2)
             q == x.num \div p
             r == x.num % p
         IN  Canon([ok |-> TRUE, num |-> IF 2 * r >= p THEN q + 1 ELSE q, frac |-> 2])

RECURSIVE SUM(_)
SUM(amounts) == IF amounts = <<>> THEN Zero ELSE DecAdd(Head(amounts), SUM(Tail(amounts)))

\* the rows of a day, and those of one cluster of it
DayRows(tbl, ymd) == SelectSeq(tbl, LAMBDA r : r.ymd = ymd)
Amounts(rows) == [i \in 1..Len(rows) |-> rows[i].amount]

\* SELECT cluster, ROUND(SUM(amount),2) AS total, COUNT(*) AS n ... GROUP BY cluster
GroupBy(tbl, ymd) ==
    LET d == DayRows(tbl, ymd)
    IN  {[cluster |-> c,
          total |-> ROUND2(SUM(Amounts(SelectSeq(d, LAMBDA r : r.cluster = c)))),
          n |-> Len(SelectSeq(d, LAMBDA r : r.cluster = c))] :
         c \in {d[i].cluster : i \in 1..Len(d)}}

\* ORDER BY total DESC: every arrangement of the groups with non-increasing
\* totals; SQL leaves the order of rows with equal totals open
OrderByTotalDesc(groups) ==
    {q \in [1..Cardinality(groups) -> groups] :
        /\ \A i, j \in DOMAIN q : i # j => q[i] # q[j]
        /\ \A i, j \in DOMAIN q : i < j => DecLeq(q[j].total, q[i].total)}

\* SELECT ROUND(SUM(amount),2) ... .scalar() or 0.0
TotalQuery(tbl, ymd) ==
    LET d == DayRows(tbl, ymd)
    IN  IF d = <<>> THEN Zero ELSE ROUND2(SUM(Amounts(d)))

NoData == "NoData"
NoMessage == [chat_id |-> 0]

\* f"{x:,.2f}": the amount printed with two decimals, as a number of cents
Fmt2(x) == LET r == ROUND2(x) IN r.num * Pow10(2 - r.frac)

Line(kind, label, cents, n) == [kind |-> kind, label |-> label, cents |-> cents, n |-> n]

\* the report with the ИТОГО line left out when there are no rows
render_total_with_rows_only(ymd, rows, total) ==
    <<Line("header", ymd, 0, 0)>>
    \o (IF rows # <<>>
        THEN [i \in 1..Len(rows) |->
                 Line("cluster", rows[i].cluster, Fmt2(rows[i].total), rows[i].n)]
             \o <<Line("blank", 0, 0, 0), Line("total", 0, Fmt2(total), 0)>>
        ELSE <<Line("nodata", 0, 0, 0)>>)

\* lines 95-101: the lines of text_msg: the header, the body (one line per
\* row, or "Данных нет."), an empty line and the ИТОГО line
render(ymd, rows, total) ==
    <<Line("header", ymd, 0, 0)>>
    \o (IF rows # <<>>
        THEN [i \in 1..Len(rows) |->
                 Line("cluster", rows[i].cluster, Fmt2(rows[i].total), rows[i].n)]
        ELSE <<Line("nodata", 0, 0, 0)>>)
    \o <<Line("blank", 0, 0, 0), Line("total", 0, Fmt2(total), 0)>>

\* summarize_day running its two queries again when send_message fails
summarize_day_retry(ymd) ==
    \E rows \in OrderByTotalDesc(GroupBy(spends, ymd)), sent \in BOOLEAN :
        LET total == TotalQuery(spends, ymd)
            body == IF rows # <<>> THEN rows ELSE NoData
            text_msg == [chat_id |-> POST_CHAT_ID, ymd |-> ymd, body |-> body,
                         total |-> total, lines |-> render(ymd, rows, total)]
        IN  /\ call' = [op |-> "summarize_day", ymd |-> ymd, rows |-> rows, total |-> total,
                        text_msg |-> text_msg, sent |-> sent,
                        queries |-> IF sent THEN 1 ELSE 2, before |-> spends]
            /\ outbox' = IF sent THEN text_msg ELSE outbox
            /\ UNCHANGED <<spends, today, seen, again, ledger>>

\* summarize_day: the two queries run once, in one block without an await
\* (lines 86-93), the text is rendered, and send_message either delivers it or
\* raises, which ends the call
summarize_day(ymd) ==
    \E rows \in OrderByTotalDesc(GroupBy(spends, ymd)), sent \in BOOLEAN :
        LET total == TotalQuery(spends, ymd)
            body == IF rows # <<>> THEN rows ELSE NoData
            text_msg == [chat_id |-> POST_CHAT_ID, ymd |-> ymd, body |-> body,
                         total |-> total, lines |-> render(ymd, rows, total)]
        IN  /\ call' = [op |-> "summarize_day", ymd |-> ymd, rows |-> rows, total |-> total,
                        text_msg |-> text_msg, sent |-> sent,
                        queries |-> 1, before |-> spends]
            /\ outbox' = IF sent THEN text_msg ELSE outbox
            /\ UNCHANGED <<spends, today, seen, again, ledger>>

\* schedule: the cron job of 23:59
daily_summary == summarize_day(today)

\* the local date moves on to the next day
Tick ==
    /\ today < MaxDay
    /\ today' = today + 1
    /\ UNCHANGED <<spends, call, seen, again, outbox, ledger>>

\* ---------------------------------------------------------------- the bot
NoCall == [op |-> "none"]

\* lines 105-118: the command callbacks
cmd_today == summarize_day(today)
cmd_yesterday == summarize_day(today - 1)
cmd_summarize == summarize_day(today)
start_cmd ==
    /\ call' = [op |-> "start_cmd"]
    /\ UNCHANGED <<spends, today, seen, again, outbox, ledger>>

\* lines 147-151: the handlers of group 0 in the order they are added; the
\* command of a CommandHandler, <<>> for MessageHandler(filters.ALL, ...)
Handlers ==
    <<[callback |-> "ingest", command |-> <<>>],
      [callback |-> "start_cmd", command |-> <<"s", "t", "a", "r", "t">>],
      [callback |-> "cmd_today", command |-> <<"t", "o", "d", "a", "y">>],
      [callback |-> "cmd_yesterday", command |-> <<"y", "e", "s", "t", "e", "r", "d", "a", "y">>],
      [callback |-> "cmd_summarize", command |-> <<"s", "u", "m", "m", "a", "r", "i", "z", "e">>]>>

\* the text starts with "/" and the command, followed by the end or whitespace
IsCommand(text, command) ==
    LET n == Len(command) + 1 IN
    /\ Len(text) >= n
    /\ text[1] = "/"
    /\ upper(SubSeq(text, 2, n)) = upper(command)
    /\ Len(text) = n \/ text[n + 1] \in Space

\* handler.check_update: filters.ALL accepts every message, a CommandHandler
\* the messages that start with its command
Accepts(h, update) ==
    IF h.callback = "ingest" THEN TRUE ELSE IsCommand(update.text, h.command)

\* Application.process_update: within a group the first handler that accepts
\* the update handles it and the others are not tried
HandlerFor(update) ==
    Handlers[CHOOSE k \in 1..Len(Handlers) :
                /\ Accepts(Handlers[k], update)
                /\ \A j \in 1..(k - 1) : ~Accepts(Handlers[j], update)].callback

process_update(update) ==
    LET callback == HandlerFor(update) IN
    IF callback = "ingest" THEN ingest(update) /\ UNCHANGED ledger
    ELSE IF callback = "start_cmd" THEN start_cmd
    ELSE IF callback = "cmd_today" THEN cmd_today
    ELSE IF callback = "cmd_yesterday" THEN cmd_yesterday
    ELSE cmd_summarize

Init ==
    /\ spends = <<>>
    /\ today = 1
    /\ call = NoCall
    /\ seen = {}
    /\ again = {}
    /\ outbox = NoMessage
    /\ ledger = {}

Next ==
    \/ \E update \in Updates : process_update(update)
    \/ daily_summary
    \/ Tick

Spec == Init /\ [][Next]_vars

\* ---------------------------------------------------------------- _norm_amount alone
\* the matched substrings of the normalization examples
N_eu == <<"1", ".", "2", "3", "4", ",", "5", "6">>
N_eu_plain == <<"1", "2", "3", "4", ",", "5", "6">>
N_us == <<"1", ",", "2", "3", "4", ".", "5", "6">>
N_spaced == <<"3", " ", "4", "0", "0">>

NormAlphabet == {"1", ",", ".", " "}

RECURSIVE StringsUpTo(_)
StringsUpTo(n) ==
    IF n = 0 THEN {<<>>}
    ELSE LET shorter == StringsUpTo(n - 1)
         IN  shorter \cup {Append(t, c) : t \in shorter, c \in NormAlphabet}

NormInputs == StringsUpTo(MaxNormLen) \cup {N_eu, N_eu_plain, N_us, N_spaced}

InitNorm ==
    /\ spends = <<>>
    /\ today = 1
    /\ call \in {[op |-> "input", txt |-> t] : t \in NormInputs}
    /\ seen = {}
    /\ again = {}
    /\ outbox = NoMessage
    /\ ledger = {}

apply_norm_amount ==
    /\ call.op = "input"
    /\ call' = [op |-> "_norm_amount", txt |-> call.txt, result |-> _norm_amount(call.txt)]
    /\ UNCHANGED <<spends, today, seen, again, outbox, ledger>>

NextNorm == apply_norm_amount

SpecNorm == InitNorm /\ [][NextNorm]_vars

\* ---------------------------------------------------------------- the queries alone
\* the contents of table spends the queries are run on: any rows with
\* distinct message ids, a cluster of CLUSTERS and a positive amount
QAmounts == {[ok |-> TRUE, num |-> 4, frac |-> 3],
             [ok |-> TRUE, num |-> 3, frac |-> 0],
             [ok |-> TRUE, num |-> 5, frac |-> 0]}

QRows == [ymd : Days, cluster : {CLUSTERS[k] : k \in 1..Len(CLUSTERS)}, amount : QAmounts]

RECURSIVE QTablesOf(_)
QTablesOf(n) ==
    IF n = 0 THEN {<<>>}
    ELSE LET shorter == QTablesOf(n - 1)
         IN  shorter \cup
             {Append(t, [chat_id |-> SOURCE_CHAT_ID, message_id |-> Len(t) + 1,
                         ymd |-> r.ymd, cluster |-> r.cluster, amount |-> r.amount]) :
              t \in {u \in shorter : Len(u) = n - 1}, r \in QRows}

InitQuery ==
    /\ spends \in QTablesOf(MaxRows)
    /\ today = 1
    /\ call = NoCall
    /\ seen = {}
    /\ again = {}
    /\ outbox = NoMessage
    /\ ledger = {}

NextQuery ==
    \/ daily_summary
    \/ Tick

SpecQuery == InitQuery /\ [][NextQuery]_vars

\* ---------------------------------------------------------------- ingest, then report
\* valid messages of the source chat with distinct message ids: those of the
\* end-to-end example, "SKY 500", "SKY 300", "ALX 100"
E2ETexts == <<T_SKY500, T_SKY300, T_ALX100>>
E2EUpdates == {[chat_id |-> SOURCE_CHAT_ID, message_id |-> i, text |-> E2ETexts[i]] :
               i \in 1..Len(E2ETexts)}

\* ingest of one of them, noting what its first delivery should have recorded
deliver(update) ==
    /\ ingest(update)
    /\ ledger' = IF \E l \in ledger : l.message_id = update.message_id THEN ledger
                 ELSE ledger \cup {[message_id |-> update.message_id, ymd |-> today,
                                    cluster |-> extract_cluster(strip(update.text)),
                                    amount |-> float(max_norm(findall(strip(update.text))))]}

NextE2E ==
    \/ \E update \in E2EUpdates : deliver(update)
    \/ daily_summary
    \/ Tick

SpecE2E == Init /\ [][NextE2E]_vars

\* ---------------------------------------------------------------- the bot on a table with a row
\* daily_spend.db is kept across restarts (CREATE TABLE IF NOT EXISTS): the
\* bot started on a table that holds one row of message 1 of the source chat
StoredRow(ymd) ==
    [chat_id |-> SOURCE_CHAT_ID, message_id |-> 1, ymd |-> ymd,
     cluster |-> <<"S", "K", "Y">>, amount |-> [ok |-> TRUE, num |-> 500, frac |-> 0]]

InitStored ==
    /\ spends \in {<<StoredRow(ymd)>> : ymd \in Days}
    /\ today = 1
    /\ call = NoCall
    /\ seen = {}
    /\ again = {}
    /\ outbox = NoMessage
    /\ ledger = {}

\* the updates delivered to it: valid texts and a filtered one, under the key
\* of the row and under other keys
StoredUpdates == [chat_id : Chats, message_id : 1..MaxMsgId,
                  text : {T_SKY500, T_ALX100, T_hi500}]

NextStored ==
    \/ \E update \in StoredUpdates : process_update(update)
    \/ daily_summary
    \/ Tick

SpecStored == InitStored /\ [][NextStored]_vars

\* ================================================================ claims
RowsOf(k) == Cardinality({i \in 1..Len(spends) : Key(spends[i]) = k})
NoLabel(text) == \A k \in 1..Len(CLUSTERS) : ~Contains(upper(text), CLUSTERS[k])
SourceIngest == call.op = "ingest" /\ call.update.chat_id = SOURCE_CHAT_ID
Dec(n, f) == [ok |-> TRUE, num |-> n, frac |-> f]

\* C1: the first ingest of a key, for a message of the source with a cluster
\* keyword and a positive amount, ends in Stored and adds exactly one row;
\* every later ingest of that key ends in Duplicate and adds no row.
C1_StoredOnceThenDuplicate ==
    (call.op = "ingest" /\ Storable(call.update)) =>
        IF call.first
        THEN call.outcome = "Stored" /\ Len(spends) = Len(call.before) + 1
        ELSE call.outcome = "Duplicate" /\ spends = call.before

\* C2: the table never holds two rows with the same (chat_id, message_id).
C2_UniqueKey ==
    \A i, j \in 1..Len(spends) : Key(spends[i]) = Key(spends[j]) => i = j

\* a storable message has been delivered a second time
C2_Witness == again # {} /\ C2_UniqueKey

\* C3: two ingest calls of storable messages leave exactly one row when their
\* keys are the same and both rows when their keys differ.
C3_OneRowPerDeliveredKey ==
    /\ \A k \in again : RowsOf(k) = 1
    /\ \A k1, k2 \in seen : k1 # k2 => RowsOf(k1) = 1 /\ RowsOf(k2) = 1

\* C4: the per-cluster totals of a report add up to its day total exactly.
C4_ClusterTotalsAddUp ==
    call.op = "summarize_day" =>
        SUM([i \in 1..Len(call.rows) |-> call.rows[i].total]) = call.total

\* C5: "1.234,56", "1234,56" and "1,234.56" normalize to 1234.56 and "3 400"
\* to 3400.
C5_NormExamples ==
    call.op = "_norm_amount" =>
        /\ call.txt \in {N_eu, N_eu_plain, N_us} =>
               call.result.ok /\ DecEq(call.result, Dec(123456, 2))
        /\ call.txt = N_spaced => call.result.ok /\ DecEq(call.result, Dec(3400, 0))

\* C6: a message with an amount match that cannot be normalized is handled
\* like one with no amount match: ingest returns at the no-amount filter
\* without raising and the table is unchanged.
C6_MalformedIsFiltered ==
    (/\ SourceIngest
     /\ ~NoLabel(call.update.text)
     /\ \E i \in 1..Len(findall(strip(call.update.text))) :
            ~_norm_amount(findall(strip(call.update.text))[i]).ok)
    => call.outcome = "FilteredNoAmount" /\ spends = call.before

\* C7: every stored row has amount > 0, and a message whose selected amount
\* is zero or negative ends at the non-positive filter with the table
\* unchanged.
C7_PositiveAmounts ==
    /\ \A i \in 1..Len(spends) : spends[i].amount.num > 0
    /\ (/\ SourceIngest
        /\ ~NoLabel(call.update.text)
        /\ findall(strip(call.update.text)) # <<>>
        /\ max_norm(findall(strip(call.update.text))).ok
        /\ max_norm(findall(strip(call.update.text))).num <= 0)
       => call.outcome = "FilteredNonPositive" /\ spends = call.before

\* a message of the source with a cluster and the amount 0 has been ingested
C7_Witness ==
    /\ SourceIngest
    /\ call.update.text = T_sky0
    /\ call.outcome = "FilteredNonPositive"
    /\ spends = call.before

\* C8: every stored row's cluster is one of TEXAS, SKY, ALX, and a message
\* whose text contains none of the labels ends at the empty-text or the
\* no-cluster filter with the table unchanged, whatever amounts it contains.
C8_ClustersOnly ==
    /\ \A i \in 1..Len(spends) : \E k \in 1..Len(CLUSTERS) : spends[i].cluster = CLUSTERS[k]
    /\ (SourceIngest /\ NoLabel(call.update.text))
       => call.outcome \in {"EmptyText", "FilteredNoCluster"} /\ spends = call.before

\* a message of the source with an amount and no label has been ingested
C8_Witness ==
    /\ SourceIngest
    /\ call.update.text = T_hi500
    /\ call.outcome = "FilteredNoCluster"
    /\ spends = call.before

\* C9: an ingest call leaves the table unchanged when the origin is not the
\* source, the text is empty, there is no cluster, no amount match, a
\* non-positive amount or a key already stored; the table changes only on the
\* Stored path, and then by exactly one appended row.
C9_FilteredPathsKeepStore ==
    call.op = "ingest" =>
        LET text == strip(call.update.text) IN
        /\ (\/ call.update.chat_id # SOURCE_CHAT_ID
            \/ text = <<>>
            \/ NoLabel(text)
            \/ findall(text) = <<>>
            \/ (max_norm(findall(text)).ok /\ max_norm(findall(text)).num <= 0)
            \/ Key(call.update) \in Keys(call.before))
           => spends = call.before
        /\ call.outcome \in {"NotSource", "EmptyText", "FilteredNoCluster",
                             "FilteredNoAmount", "FilteredNonPositive", "Duplicate"}
           => spends = call.before
        /\ spends # call.before =>
               /\ call.outcome = "Stored"
               /\ Len(spends) = Len(call.before) + 1
               /\ SubSeq(spends, 1, Len(call.before)) = call.before

\* an ingest has ended on a filtered path (the no-amount filter) and left the
\* table as it was
C9_Witness ==
    /\ call.op = "ingest"
    /\ call.outcome = "FilteredNoAmount"
    /\ spends = call.before

\* C10: the rows of a report are sorted by total descending, and rows with
\* equal totals by cluster label ascending.
LabelLess(a, b) ==
    LET rank == [c \in {CLUSTERS[k] : k \in 1..Len(CLUSTERS)} |->
                    IF c = <<"A", "L", "X">> THEN 1 ELSE IF c = <<"S", "K", "Y">> THEN 2 ELSE 3]
    IN  rank[a] < rank[b]

C10_SortedTiesByLabel ==
    call.op = "summarize_day" =>
        \A i, j \in 1..Len(call.rows) : i < j =>
            /\ DecLeq(call.rows[j].total, call.rows[i].total)
            /\ DecEq(call.rows[i].total, call.rows[j].total) =>
                   LabelLess(call.rows[i].cluster, call.rows[j].cluster)

\* C11: after valid messages with distinct ids are ingested, the report of a
\* day has exactly one entry per cluster with a message first ingested on that
\* day, its total the sum of their amounts and its count their number;
\* messages of other days contribute nothing.
RECURSIVE SumOfLedger(_)
SumOfLedger(ls) ==
    IF ls = {} THEN Zero
    ELSE LET l == CHOOSE x \in ls : TRUE
         IN  DecAdd(l.amount, SumOfLedger(ls \ {l}))

C11_AggregateOfIngested ==
    call.op = "summarize_day" =>
        LET recs == {l \in ledger : l.ymd = call.ymd}
            of(c) == {l \in recs : l.cluster = c}
        IN  /\ {call.rows[i] : i \in 1..Len(call.rows)} =
               {[cluster |-> c, total |-> SumOfLedger(of(c)), n |-> Cardinality(of(c))] :
                c \in {l.cluster : l \in recs}}
            /\ Len(call.rows) = Cardinality({l.cluster : l \in recs})

\* C12: when the text yields several matches, the amount ingest selects for
\* the message is the greatest of the normalized values of all matches.
Selected == {"FilteredNonPositive", "TypeError", "Duplicate", "Stored"}

C12_MaxOfMatches ==
    LET ms == findall(strip(call.update.text)) IN
    (SourceIngest /\ ~NoLabel(call.update.text) /\ Len(ms) >= 2
     /\ \A i \in 1..Len(ms) : _norm_amount(ms[i]).ok)
    => /\ call.outcome \in Selected
       /\ call.amount.ok
       /\ \A i \in 1..Len(ms) : DecLeq(_norm_amount(ms[i]), call.amount)
       /\ \E i \in 1..Len(ms) : DecEq(_norm_amount(ms[i]), call.amount)

\* "SKY5 ALX 7", with the matches "5 " and " 7", has been ingested and 7 selected
C12_Witness ==
    /\ SourceIngest
    /\ call.update.text = T_two
    /\ Len(findall(call.update.text)) = 2
    /\ call.outcome \in Selected
    /\ DecEq(call.amount, Dec(7, 0))

\* C13: extract_cluster returns the first label in the order TEXAS, SKY, ALX
\* that occurs case-insensitively anywhere in the text, whatever the positions
\* of the labels, and no match when none occurs.
C13_ClusterByPriority ==
    (SourceIngest /\ strip(call.update.text) # <<>>) =>
        LET up == upper(strip(call.update.text)) IN
        /\ call.cluster = None <=> \A k \in 1..Len(CLUSTERS) : ~Contains(up, CLUSTERS[k])
        /\ \A k \in 1..Len(CLUSTERS) :
               call.cluster = CLUSTERS[k] <=>
                   /\ Contains(up, CLUSTERS[k])
                   /\ \A j \in 1..(k - 1) : ~Contains(up, CLUSTERS[j])

\* "ALX sky 2", where the lower-priority label comes first and the
\* higher-priority one in lower case, has been tagged SKY
C13_Witness ==
    /\ SourceIngest
    /\ call.update.text = T_ALXsky
    /\ call.cluster = <<"S", "K", "Y">>

\* C14: every stored row's chat_id is the source chat, and a message of any
\* other chat ends at the origin filter, before tagging and parsing, with the
\* table unchanged.
C14_SourceOnly ==
    /\ \A i \in 1..Len(spends) : spends[i].chat_id = SOURCE_CHAT_ID
    /\ (call.op = "ingest" /\ call.update.chat_id # SOURCE_CHAT_ID)
       => /\ call.outcome = "NotSource"
          /\ call.cluster = None
          /\ ~call.amount.ok
          /\ spends = call.before

\* "SKY 500" has been delivered from another chat and rejected
C14_Witness ==
    /\ call.op = "ingest"
    /\ call.update.chat_id = OtherChat
    /\ call.update.text = T_SKY500
    /\ call.outcome = "NotSource"
    /\ spends = call.before

\* C20: if any single match of the text fails to normalize, a match made only
\* of whitespace included, ingest ends with decimal.InvalidOperation before the
\* transactional block and the table is unchanged, even when another match of
\* the same text is a valid positive amount.
C20_AllOrNothing ==
    LET ms == findall(strip(call.update.text)) IN
    (SourceIngest /\ ~NoLabel(call.update.text)
     /\ \E i \in 1..Len(ms) : ~_norm_amount(ms[i]).ok)
    => call.outcome = "InvalidOperation" /\ ~call.amount.ok /\ spends = call.before

\* "SKY $ 5", with the matches " " and " 5", has been ingested: the second
\* match is the positive amount 5, the first does not normalize
C20_Witness ==
    LET ms == findall(strip(call.update.text)) IN
    /\ SourceIngest
    /\ call.update.text = T_SKYd5
    /\ \E i \in 1..Len(ms) : \A c \in 1..Len(ms[i]) : ms[i][c] \in Space
    /\ \E i \in 1..Len(ms) : _norm_amount(ms[i]).ok /\ _norm_amount(ms[i]).num > 0
    /\ call.outcome = "InvalidOperation"
    /\ spends = call.before

\* C15 as stated: the report of a day without records consists of the no-data
\* message, and the per-cluster lines and the grand-total line appear only
\* when the day has records.
Kinds(lines) == [i \in 1..Len(lines) |-> lines[i].kind]
ClusterLines(rows) ==
    [i \in 1..Len(rows) |-> Line("cluster", rows[i].cluster, Fmt2(rows[i].total), rows[i].n)]

C15_TotalLineOnlyWithRows ==
    call.op = "summarize_day" =>
        LET lines == call.text_msg.lines IN
        IF call.rows = <<>>
        THEN /\ \E i \in 1..Len(lines) : lines[i].kind = "nodata"
             /\ \A i \in 1..Len(lines) : lines[i].kind \notin {"cluster", "total"}
        ELSE /\ SelectSeq(lines, LAMBDA l : l.kind = "cluster") = ClusterLines(call.rows)
             /\ lines[Len(lines)].kind = "total"
             /\ \A i \in 1..Len(lines) : lines[i].kind # "nodata"

\* C15 amended: the report is the header, then the no-data message when the day
\* has no records and otherwise one line per cluster with total and count, then
\* an empty line and one grand-total line; the grand-total line closes the
\* report in both cases and shows 0.00 when the day has no records.
C15_ReportLayout ==
    call.op = "summarize_day" =>
        LET lines == call.text_msg.lines IN
        /\ Kinds(lines) =
               <<"header">>
               \o (IF call.rows = <<>> THEN <<"nodata">>
                   ELSE [i \in 1..Len(call.rows) |-> "cluster"])
               \o <<"blank", "total">>
        /\ SelectSeq(lines, LAMBDA l : l.kind = "cluster") = ClusterLines(call.rows)
        /\ lines[Len(lines)].cents = Fmt2(call.total)
        /\ call.rows = <<>> => lines[Len(lines)].cents = 0

\* a report has been rendered for a day without records while the table holds
\* records of another day: no-data message, then the grand-total line with 0.00
C15_Witness ==
    /\ call.op = "summarize_day"
    /\ call.rows = <<>>
    /\ spends # <<>>
    /\ Kinds(call.text_msg.lines) = <<"header", "nodata", "blank", "total">>
    /\ call.text_msg.lines[4].cents = 0

\* C16: when send_message fails, the aggregation has run exactly once, its
\* result stands, and the table is what it was before the report was requested.
C16_FailedSendKeepsAggregation ==
    (call.op = "summarize_day" /\ ~call.sent) =>
        /\ call.queries = 1
        /\ spends = call.before

\* a report over a day with records has failed to be delivered
C16_Witness ==
    /\ call.op = "summarize_day"
    /\ ~call.sent
    /\ call.rows # <<>>
    /\ call.queries = 1
    /\ spends = call.before

\* C17: an update whose text is the /today, /summarize or /yesterday command
\* is handled by its command callback, which renders and sends one report, and
\* not by ingest.
C17_CommandsReachCallbacks ==
    call.op = "ingest" =>
        \A k \in 2..Len(Handlers) : ~IsCommand(call.update.text, Handlers[k].command)

\* C19: no step changes or removes a stored row: every row keeps its place,
\* day, cluster and amount, also when its message is delivered again on a later
\* day.
C19_RowsNeverChange ==
    [][/\ Len(spends') >= Len(spends)
       /\ \A i \in 1..Len(spends) : spends'[i] = spends[i]]_vars

\* the message of a row stored on an earlier day has been delivered again with
\* a valid text, and the row still carries its first day
C19_Witness ==
    /\ call.op = "ingest"
    /\ Storable(call.update)
    /\ \E i \in 1..Len(spends) :
           /\ Key(spends[i]) = Key(call.update)
           /\ spends[i].ymd < today
    /\ spends = call.before

====
